---- MODULE Spec2Model ----
(***************************************************************************)
(* The webhook delivery dispatch engine of saleor/plugins/webhook/tasks.py: *)
(* fan-out (trigger_webhooks_async), the asynchronous orchestrator          *)
(* (send_webhook_request_async) with its Celery retry chain, the            *)
(* synchronous orchestrator (trigger_webhook_sync,                          *)
(* send_webhook_request_sync), the scheme router                            *)
(* (send_webhook_using_scheme_method) and the HTTP adapter                  *)
(* (send_webhook_using_http).                                               *)
(***************************************************************************)
EXTENDS Integers, Sequences, FiniteSets, TLC

VARIABLES
    is_active,      \* Webhook.is_active, per webhook id
    payloads,       \* EventPayload rows, id = index
    deliveries,     \* EventDelivery rows, id = index
    attempts,       \* EventDeliveryAttempt rows, per delivery id, in creation order
    queue,          \* jobs of send_webhook_request_async waiting in the job queue
    running,        \* invocations of send_webhook_request_async blocked in the transport call
    log,            \* per delivery id: how often each log line of the async task was written
    delayed,        \* per delivery id: number of send_webhook_request_async.delay(id) calls
    transmissions,  \* per delivery id: number of adapter invocations
    redeliveries,   \* number of jobs the queue infrastructure has delivered a second time
    cycles,         \* number of task invocations started
    toggles,        \* number of times the registration API has switched an endpoint
    fanout_call,    \* what the last trigger_webhooks_async call was given
    sync_calls,     \* number of trigger_webhook_sync calls made
    sync_request,   \* what the last trigger_webhook_sync call was asked: event type and application
    now,            \* the wall clock, in seconds since the engine started
    sync_result,    \* what the last trigger_webhook_sync call was given and gave back
    http_call,      \* the last direct send_webhook_using_http call: its input and its result
    router_call     \* the last send_webhook_using_scheme_method call: its input and its result

vars == <<is_active, payloads, deliveries, attempts, queue, running, log, delayed,
          transmissions, redeliveries, cycles, toggles, fanout_call, sync_calls, sync_request, now,
          sync_result, http_call, router_call>>

-----------------------------------------------------------------------------
(* Bounds of the model. *)

MaxRedeliveries == 1
MaxCycles == 7
MaxToggles == 1
MaxDeliveries == 1
MaxFanoutDeliveries == 4
MaxSyncCalls == 2
MinStatusCode == 100
MaxStatusCode == 599

-----------------------------------------------------------------------------
(* Program constants. *)

retry_backoff == 10
max_retries == 5

PENDING == "pending"
SUCCESS == "success"
FAILED == "failed"

NoValue == "None"

\* WebhookSchemes
HTTP == <<"h", "t", "t", "p">>
HTTPS == <<"h", "t", "t", "p", "s">>
AWS_SQS == <<"a", "w", "s", "s", "q", "s">>
GOOGLE_CLOUD_PUBSUB == <<"g", "c", "p", "u", "b", "s", "u", "b">>

Upper == <<"A", "B", "C", "D", "E", "F", "G", "H", "I", "J", "K", "L", "M",
           "N", "O", "P", "Q", "R", "S", "T", "U", "V", "W", "X", "Y", "Z">>
Lower == <<"a", "b", "c", "d", "e", "f", "g", "h", "i", "j", "k", "l", "m",
           "n", "o", "p", "q", "r", "s", "t", "u", "v", "w", "x", "y", "z">>

LowerChar(c) ==
    IF \E i \in 1..Len(Upper) : Upper[i] = c
    THEN Lower[CHOOSE i \in 1..Len(Upper) : Upper[i] = c]
    ELSE c

\* str.lower() of parts.scheme
lower(s) == [i \in 1..Len(s) |-> LowerChar(s[i])]

-----------------------------------------------------------------------------
(* The registered endpoints the model runs on. *)

WebhookIds == 1..4

Webhooks ==
    <<[scheme |-> <<"H", "t", "t", "p", "s">>, subscription_query |-> FALSE, app |-> "app1",
       events |-> {"order_created", "payment_capture"}],
      [scheme |-> <<"a", "w", "s", "s", "q", "s">>, subscription_query |-> FALSE, app |-> "app2",
       events |-> {"payment_capture"}],
      [scheme |-> <<"g", "c", "p", "u", "b", "s", "u", "b">>, subscription_query |-> TRUE, app |-> "app2",
       events |-> {"order_created"}],
      [scheme |-> <<"f", "t", "p">>, subscription_query |-> TRUE, app |-> "app3",
       events |-> {"order_created"}]>>

Apps == {"app1", "app2", "app3", "app4"}

EventTypes == {"order_created", "payment_capture"}
SUBSCRIBABLE_EVENTS == {"order_created"}

-----------------------------------------------------------------------------
(* What the remote end or the transport library does when an adapter is    *)
(* invoked: it answers (a reply) or the library call raises.               *)

JsonBody == "{\"ok\": true}"
Bodies == {JsonBody, "not json", ""}
AsyncBodies == {"not json"}
SyncBodies == {JsonBody, "not json"}
HttpCodes == {101, 200, 204, 302, 404, 500}

Reply(code, body) == [kind |-> "reply", code |-> code, body |-> body, exc |-> NoValue]
Raise(exc) == [kind |-> "raise", code |-> 0, body |-> "", exc |-> exc]

\* class -> base class, for the exception classes the libraries raise
BaseOf(exc) ==
    CASE exc = "ConnectionError" -> "RequestException"
      [] exc = "Timeout" -> "RequestException"
      [] exc = "EndpointConnectionError" -> "BotoCoreError"
      [] exc = "NotFound" -> "GoogleAPICallError"
      [] exc = "JSONDecodeError" -> "ValueError"
      [] OTHER -> "Exception"

\* isinstance(e, classes) as an except clause decides it
IsInstance(exc, classes) == exc \in classes \/ BaseOf(exc) \in classes

\* the failures each transport library produces
AdapterRaises(method) ==
    CASE method = "http" -> {"ConnectionError", "Timeout"}
      [] method = "aws_sqs" -> {"ClientError", "EndpointConnectionError"}
      [] method = "google_cloud_pubsub" -> {"MessageTooLargeError", "RuntimeError", "NotFound"}

\* the failures the asynchronous engine is run against
AsyncRaises(method) ==
    CASE method = "http" -> {}
      [] method = "aws_sqs" -> {"ClientError", "EndpointConnectionError"}
      [] method = "google_cloud_pubsub" -> {"RuntimeError", "NotFound"}

Outcomes(method, bodies, raises) ==
    {Raise(e) : e \in raises} \cup
    (IF method = "http"
     THEN {Reply(c, b) : c \in HttpCodes, b \in bodies}
     ELSE {Reply(0, "ack")})

-----------------------------------------------------------------------------
(* Transport adapters and the router. *)

\* response_status_code 0: the adapter reports no status code (the default None)
WebhookResponse(content, code, status) ==
    [content |-> content, response_status_code |-> code, status |-> status]

\* a variant of ResponseOk that takes only server errors for failures
ResponseOkBelow500(code) == code < 500

\* requests' Response.ok: raise_for_status() raises for 400 <= status_code < 600
ResponseOk(code) == ~(400 <= code /\ code < 600)

send_webhook_using_http(reply) ==
    WebhookResponse(reply.body, reply.code,
                    IF ResponseOk(reply.code) THEN SUCCESS ELSE FAILED)

send_webhook_using_aws_sqs(reply) == WebhookResponse(reply.body, 0, SUCCESS)

send_webhook_using_google_cloud_pubsub(reply) == WebhookResponse(reply.body, 0, SUCCESS)

KnownSchemes == {HTTP, HTTPS, AWS_SQS, GOOGLE_CLOUD_PUBSUB}

scheme_matrix(scheme) ==
    CASE scheme = HTTP -> [method |-> "http", exceptions |-> {"RequestException"}]
      [] scheme = HTTPS -> [method |-> "http", exceptions |-> {"RequestException"}]
      [] scheme = AWS_SQS -> [method |-> "aws_sqs", exceptions |-> {"ClientError"}]
      [] scheme = GOOGLE_CLOUD_PUBSUB ->
            [method |-> "google_cloud_pubsub",
             exceptions |-> {"MessageTooLargeError", "RuntimeError"}]

send_method(method, reply) ==
    CASE method = "http" -> send_webhook_using_http(reply)
      [] method = "aws_sqs" -> send_webhook_using_aws_sqs(reply)
      [] method = "google_cloud_pubsub" -> send_webhook_using_google_cloud_pubsub(reply)

Returned(response, invoked) == [raised |-> NoValue, response |-> response, invoked |-> invoked]
Raised(exc, invoked) ==
    [raised |-> exc, response |-> WebhookResponse("", 0, FAILED), invoked |-> invoked]

UnknownSchemeText == "Unknown webhook scheme"

\* a variant of the router that falls back to the HTTP adapter for an unknown scheme
send_webhook_default_http(target_scheme, outcome) ==
    IF lower(target_scheme) \in KnownSchemes
    THEN LET m == scheme_matrix(lower(target_scheme)) IN
         IF outcome.kind = "raise"
         THEN IF IsInstance(outcome.exc, m.exceptions)
              THEN Returned(WebhookResponse(outcome.exc, 0, FAILED), TRUE)
              ELSE Raised(outcome.exc, TRUE)
         ELSE Returned(send_method(m.method, outcome), TRUE)
    ELSE Returned(send_webhook_using_http(outcome), TRUE)

\* outcome: what the adapter's transport does if the adapter is invoked
send_webhook_using_scheme_method(target_scheme, outcome) ==
    IF lower(target_scheme) \in KnownSchemes
    THEN LET m == scheme_matrix(lower(target_scheme)) IN
         IF outcome.kind = "raise"
         THEN IF IsInstance(outcome.exc, m.exceptions)
              THEN Returned(WebhookResponse(outcome.exc, 0, FAILED), TRUE)
              ELSE Raised(outcome.exc, TRUE)
         ELSE Returned(send_method(m.method, outcome), TRUE)
    ELSE Raised("ValueError", FALSE)

\* the outcomes the transport of a target URL can produce
AsyncOutcomes(target_scheme) ==
    IF lower(target_scheme) \in KnownSchemes
    THEN LET method == scheme_matrix(lower(target_scheme)).method
         IN Outcomes(method, AsyncBodies, AsyncRaises(method))
    ELSE {Reply(0, "")}

-----------------------------------------------------------------------------
(* The record store and the job queue. *)

EventPayload(payload) == [payload |-> payload]

EventDelivery(status, event_type, payload, webhook) ==
    [status |-> status, event_type |-> event_type, payload |-> payload,
     webhook |-> webhook, exists |-> TRUE, prunable |-> FALSE]

\* a job message: apply_async(countdown=...) stamps it with eta = now + countdown
Job(delivery_id, retries, countdown, copy) ==
    [task_id |-> delivery_id, delivery_id |-> delivery_id, retries |-> retries,
     countdown |-> countdown, copy |-> copy, eta |-> now + countdown]

\* a worker runs a job only once its eta has passed
Due(job) == job.eta <= now

NoLog == [not_found |-> 0, disabled |-> 0, failed_request |-> 0, exceeded |-> 0,
          sent |-> 0, unhandled |-> 0]

Logged(id, line) == [log EXCEPT ![id][line] = @ + 1]

\* create_attempt(delivery, task_id)
create_attempt(delivery_id, task_id) ==
    [attempts EXCEPT ![delivery_id] =
        Append(@, [task_id |-> task_id, status |-> PENDING, content |-> "",
                   created_at |-> now])]

\* attempt_update(attempt, response)
attempt_update(rows, id, attempt, response) ==
    [rows EXCEPT ![id][attempt].status = response.status,
                 ![id][attempt].content = response.content]

\* delivery_update(delivery, status)
delivery_update(rows, id, status) == [rows EXCEPT ![id].status = status]

\* clear_successful_delivery(delivery): a successful delivery becomes eligible for cleanup
clear_successful_delivery(rows, id) ==
    IF rows[id].status = SUCCESS THEN [rows EXCEPT ![id].prunable = TRUE] ELSE rows

JobsOf(id) == {j \in queue : j.delivery_id = id}
RunningOf(id) == {r \in running : r.job.delivery_id = id}

-----------------------------------------------------------------------------
(* Fan-out: trigger_webhooks_async. *)

RECURSIVE Ordered(_)
\* the iteration order of a set of webhooks: by id
Ordered(S) ==
    IF S = {} THEN <<>>
    ELSE LET w == CHOOSE x \in S : \A y \in S : x <= y IN <<w>> \o Ordered(S \ {w})

group_webhooks_by_subscription(webhooks) ==
    [regular |-> {w \in webhooks : ~Webhooks[w].subscription_query},
     subscription |-> {w \in webhooks : Webhooks[w].subscription_query}]

\* create_event_delivery_list_for_webhooks(webhooks, event_payload, event_type)
create_event_delivery_list_for_webhooks(webhooks, event_payload, event_type) ==
    LET ws == Ordered(webhooks) IN
    [i \in 1..Len(ws) |-> EventDelivery(PENDING, event_type, event_payload, ws[i])]

\* a variant of create_deliveries_for_subscriptions that does not skip an endpoint
\* whose query renders nothing
create_deliveries_for_all_subscriptions(event_type, webhooks, rendered, first_id) ==
    IF event_type \notin SUBSCRIBABLE_EVENTS
    THEN [event_payloads |-> <<>>, event_deliveries |-> <<>>]
    ELSE LET ws == Ordered(webhooks) IN
         [event_payloads |-> [i \in 1..Len(ws) |-> EventPayload(<<"subscription", ws[i]>>)],
          event_deliveries |->
              [i \in 1..Len(ws) |-> EventDelivery(PENDING, event_type, first_id + i - 1, ws[i])]]

\* rendered: the webhooks whose subscription query renders a non-empty payload;
\* first_id: the id the first payload created here gets
create_deliveries_for_subscriptions(event_type, webhooks, rendered, first_id) ==
    IF event_type \notin SUBSCRIBABLE_EVENTS
    THEN [event_payloads |-> <<>>, event_deliveries |-> <<>>]
    ELSE LET ws == Ordered(webhooks \cap rendered) IN
         [event_payloads |-> [i \in 1..Len(ws) |-> EventPayload(<<"subscription", ws[i]>>)],
          event_deliveries |->
              [i \in 1..Len(ws) |-> EventDelivery(PENDING, event_type, first_id + i - 1, ws[i])]]

\* the webhooks handed to create_event_delivery_list_for_webhooks
RawDeliveryWebhooks(webhooks, regular_webhooks) == webhooks

\* a variant of Submitted that leaves out the deliveries to subscription endpoints
SubmittedRawOnly(new) ==
    {i \in 1..Len(new) : ~Webhooks[new[i].webhook].subscription_query}

\* the new deliveries (by position) that send_webhook_request_async.delay is called for
Submitted(new) == 1..Len(new)

trigger_webhooks_async(data, event_type, webhooks, rendered) ==
    LET g == group_webhooks_by_subscription(webhooks)
        payload_id == Len(payloads) + 1
        raw_payloads == IF g.regular # {} THEN <<EventPayload(data)>> ELSE <<>>
        raw == IF g.regular # {}
               THEN create_event_delivery_list_for_webhooks(
                        RawDeliveryWebhooks(webhooks, g.regular), payload_id, event_type)
               ELSE <<>>
        sub == IF g.subscription # {}
               THEN create_deliveries_for_subscriptions(
                        event_type, g.subscription, rendered,
                        Len(payloads) + Len(raw_payloads) + 1)
               ELSE [event_payloads |-> <<>>, event_deliveries |-> <<>>]
        new == raw \o sub.event_deliveries
        n == Len(deliveries)
    IN /\ payloads' = payloads \o raw_payloads \o sub.event_payloads
       /\ deliveries' = deliveries \o new
       /\ queue' = queue \cup {Job(n + i, 0, 0, 0) : i \in Submitted(new)}
       /\ delayed' = delayed \o [i \in 1..Len(new) |-> IF i \in Submitted(new) THEN 1 ELSE 0]
       /\ attempts' = attempts \o [i \in 1..Len(new) |-> <<>>]
       /\ log' = log \o [i \in 1..Len(new) |-> NoLog]
       /\ transmissions' = transmissions \o [i \in 1..Len(new) |-> 0]
       /\ fanout_call' = [called |-> TRUE, event_type |-> event_type, webhooks |-> webhooks,
                           rendered |-> rendered, first |-> n + 1,
                           first_payload |-> payload_id]
       /\ UNCHANGED <<is_active, running, redeliveries, cycles, toggles, sync_calls, sync_request, now,
                      sync_result, http_call, router_call>>

\* an event fires for a set of endpoints, while the store holds fewer than max_rows deliveries
TriggerAsync(max_rows) ==
    /\ Len(deliveries) < max_rows
    /\ \E event_type \in EventTypes, webhooks \in SUBSET WebhookIds :
         /\ Cardinality(webhooks) <= max_rows - Len(deliveries)
         /\ \E rendered \in SUBSET {w \in webhooks : Webhooks[w].subscription_query} :
              /\ trigger_webhooks_async(<<"data", 0>>, event_type, webhooks, rendered)
              /\ Len(deliveries') <= max_rows

-----------------------------------------------------------------------------
(* The asynchronous orchestrator: send_webhook_request_async.  One         *)
(* invocation runs up to the transport call (TaskNotFound, TaskDisabled,   *)
(* TaskBegin), blocks in it, and runs to its end when the call is over     *)
(* (TaskComplete).                                                         *)

RECURSIVE Pow2(_)
Pow2(n) == IF n = 0 THEN 1 ELSE 2 * Pow2(n - 1)

\* a variant of Countdown that grows by retry_backoff with every retry
CountdownLinear(retries) == retry_backoff * (retries + 1)

\* countdown = self.retry_backoff * (2**self.request.retries)
Countdown(retries) == retry_backoff * Pow2(retries)

\* a variant of MaxRetriesExceeded that gives up one retry early
MaxRetriesExceededEarly(retries) == retries + 1 >= max_retries

\* Task.retry raises MaxRetriesExceededError when request.retries + 1 > max_retries
MaxRetriesExceeded(retries) == retries + 1 > max_retries

\* the delivery row is gone: log and return
TaskNotFound(job) ==
    /\ job \in queue
    /\ cycles < MaxCycles
    /\ ~deliveries[job.delivery_id].exists
    /\ queue' = queue \ {job}
    /\ cycles' = cycles + 1
    /\ log' = Logged(job.delivery_id, "not_found")
    /\ UNCHANGED <<is_active, payloads, deliveries, attempts, running, delayed,
                   transmissions, redeliveries, toggles, fanout_call, sync_calls, sync_request, now, sync_result,
                   http_call, router_call>>

\* a variant of TaskDisabled that creates the attempt before it looks at the webhook
TaskDisabledAfterAttempt(job) ==
    /\ job \in queue
    /\ cycles < MaxCycles
    /\ deliveries[job.delivery_id].exists
    /\ ~is_active[deliveries[job.delivery_id].webhook]
    /\ queue' = queue \ {job}
    /\ cycles' = cycles + 1
    /\ attempts' = create_attempt(job.delivery_id, job.task_id)
    /\ deliveries' = delivery_update(deliveries, job.delivery_id, FAILED)
    /\ log' = Logged(job.delivery_id, "disabled")
    /\ UNCHANGED <<is_active, payloads, running, delayed, transmissions,
                   redeliveries, toggles, fanout_call, sync_calls, sync_request, now, sync_result,
                   http_call, router_call>>

\* a variant of TaskDisabled that returns without marking the delivery
TaskDisabledLeftPending(job) ==
    /\ job \in queue
    /\ cycles < MaxCycles
    /\ deliveries[job.delivery_id].exists
    /\ ~is_active[deliveries[job.delivery_id].webhook]
    /\ queue' = queue \ {job}
    /\ cycles' = cycles + 1
    /\ log' = Logged(job.delivery_id, "disabled")
    /\ UNCHANGED <<is_active, payloads, deliveries, attempts, running, delayed, transmissions,
                   redeliveries, toggles, fanout_call, sync_calls, sync_request, now,
                   sync_result, http_call, router_call>>

\* the webhook is disabled: mark the delivery FAILED and return
TaskDisabled(job) ==
    /\ job \in queue
    /\ cycles < MaxCycles
    /\ deliveries[job.delivery_id].exists
    /\ ~is_active[deliveries[job.delivery_id].webhook]
    /\ queue' = queue \ {job}
    /\ cycles' = cycles + 1
    /\ deliveries' = delivery_update(deliveries, job.delivery_id, FAILED)
    /\ log' = Logged(job.delivery_id, "disabled")
    /\ UNCHANGED <<is_active, payloads, attempts, running, delayed, transmissions,
                   redeliveries, toggles, fanout_call, sync_calls, sync_request, now, sync_result, http_call, router_call>>

\* create the attempt and enter the transport call
TaskBegin(job) ==
    /\ job \in queue
    /\ cycles < MaxCycles
    /\ deliveries[job.delivery_id].exists
    /\ is_active[deliveries[job.delivery_id].webhook]
    /\ queue' = queue \ {job}
    /\ cycles' = cycles + 1
    /\ attempts' = create_attempt(job.delivery_id, job.task_id)
    /\ running' = running \cup {[job |-> job, attempt |-> Len(attempts[job.delivery_id]) + 1]}
    /\ UNCHANGED <<is_active, payloads, deliveries, log, delayed, transmissions,
                   redeliveries, toggles, fanout_call, sync_calls, sync_request, now, sync_result, http_call, router_call>>

\* a variant of FailedResponse that marks the delivery FAILED in every failed cycle
FailedResponseMarked(r, id, response) ==
    /\ attempts' = attempt_update(attempts, id, r.attempt, response)
    /\ deliveries' = clear_successful_delivery(delivery_update(deliveries, id, FAILED), id)
    /\ IF MaxRetriesExceeded(r.job.retries)
       THEN /\ log' = [log EXCEPT ![id].failed_request = @ + 1, ![id].exceeded = @ + 1]
            /\ queue' = queue
       ELSE /\ queue' = queue \cup {Job(id, r.job.retries + 1, Countdown(r.job.retries),
                                        r.job.copy)}
            /\ log' = Logged(id, "failed_request")

\* the response is FAILED: self.retry schedules the job again, or the budget is exhausted
FailedResponse(r, id, response) ==
    /\ attempts' = attempt_update(attempts, id, r.attempt, response)
    /\ IF MaxRetriesExceeded(r.job.retries)
       THEN /\ deliveries' = clear_successful_delivery(
                                 delivery_update(deliveries, id, FAILED), id)
            /\ log' = [log EXCEPT ![id].failed_request = @ + 1, ![id].exceeded = @ + 1]
            /\ queue' = queue
       ELSE \* Retry propagates out of the task: no delivery_update
            /\ queue' = queue \cup {Job(id, r.job.retries + 1, Countdown(r.job.retries),
                                        r.job.copy)}
            /\ log' = Logged(id, "failed_request")
            /\ deliveries' = deliveries

\* a variant of SuccessResponse that schedules a retry all the same
SuccessResponseRetried(r, id, response) ==
    /\ attempts' = attempt_update(attempts, id, r.attempt, response)
    /\ deliveries' = clear_successful_delivery(delivery_update(deliveries, id, SUCCESS), id)
    /\ log' = Logged(id, "sent")
    /\ queue' = IF MaxRetriesExceeded(r.job.retries)
                THEN queue
                ELSE queue \cup {Job(id, r.job.retries + 1, Countdown(r.job.retries),
                                     r.job.copy)}

SuccessResponse(r, id, response) ==
    /\ attempts' = attempt_update(attempts, id, r.attempt, response)
    /\ deliveries' = clear_successful_delivery(delivery_update(deliveries, id, SUCCESS), id)
    /\ log' = Logged(id, "sent")
    /\ queue' = queue

\* except ValueError: the router did not know the scheme
UnknownScheme(r, id) ==
    /\ attempts' = attempt_update(attempts, id, r.attempt,
                                  WebhookResponse(UnknownSchemeText, 0, FAILED))
    /\ deliveries' = clear_successful_delivery(delivery_update(deliveries, id, FAILED), id)
    /\ UNCHANGED <<log, queue>>

\* any other exception leaves the task where it was raised
Unhandled(r, id) ==
    /\ log' = Logged(id, "unhandled")
    /\ UNCHANGED <<attempts, deliveries, queue>>

TaskComplete(r) ==
    /\ r \in running
    /\ running' = running \ {r}
    /\ LET id == r.job.delivery_id
           target == Webhooks[deliveries[id].webhook].scheme
       IN \E outcome \in AsyncOutcomes(target) :
            LET result == send_webhook_using_scheme_method(target, outcome) IN
            /\ transmissions' =
                   [transmissions EXCEPT ![id] = IF result.invoked THEN @ + 1 ELSE @]
            /\ IF ~deliveries[id].exists
               THEN \* the row was removed meanwhile: saving it fails
                    Unhandled(r, id)
               ELSE IF result.raised = "ValueError" THEN UnknownScheme(r, id)
               ELSE IF result.raised # NoValue THEN Unhandled(r, id)
               ELSE IF result.response.status = FAILED
                    THEN FailedResponse(r, id, result.response)
               ELSE SuccessResponse(r, id, result.response)
    /\ UNCHANGED <<is_active, payloads, delayed, redeliveries, cycles, toggles, fanout_call, sync_calls, sync_request, now, sync_result, http_call, router_call>>

-----------------------------------------------------------------------------
(* The environment of the engine. *)

\* the job queue delivers a waiting job a second time
Redeliver(job) ==
    /\ job \in queue
    /\ redeliveries < MaxRedeliveries
    /\ redeliveries' = redeliveries + 1
    /\ queue' = queue \cup {[job EXCEPT !.copy = redeliveries + 1]}
    /\ UNCHANGED <<is_active, payloads, deliveries, attempts, running, log, delayed,
                   transmissions, cycles, toggles, fanout_call, sync_calls, sync_request, now, sync_result, http_call, router_call>>

\* time passes until a waiting job falls due
Tick ==
    /\ \E job \in queue : job.eta > now /\ now' = job.eta
    /\ UNCHANGED <<is_active, payloads, deliveries, attempts, queue, running, log, delayed,
                   transmissions, redeliveries, cycles, toggles, fanout_call, sync_calls,
                   sync_request, sync_result, http_call, router_call>>

\* the registration API switches an endpoint on or off
SetActive(w) ==
    /\ toggles < MaxToggles
    /\ toggles' = toggles + 1
    /\ is_active' = [is_active EXCEPT ![w] = ~@]
    /\ UNCHANGED <<payloads, deliveries, attempts, queue, running, log, delayed,
                   transmissions, redeliveries, cycles, fanout_call, sync_calls, sync_request, now,
                   sync_result, http_call, router_call>>

\* storage housekeeping removes a delivery that is eligible for cleanup
Housekeeping(id) ==
    /\ deliveries[id].exists
    /\ deliveries[id].prunable
    /\ deliveries' = [deliveries EXCEPT ![id].exists = FALSE]
    /\ UNCHANGED <<is_active, payloads, attempts, queue, running, log, delayed,
                   transmissions, redeliveries, cycles, toggles, fanout_call, sync_calls, sync_request, now,
                   sync_result, http_call, router_call>>

-----------------------------------------------------------------------------
(* The synchronous orchestrator: trigger_webhook_sync and                  *)
(* send_webhook_request_sync.  The caller blocks for the whole call.       *)

\* json.loads(response.content)
json_loads(content) ==
    IF content = JsonBody
    THEN [error |-> NoValue, value |-> "{'ok': True}"]
    ELSE [error |-> "JSONDecodeError", value |-> NoValue]

\* get_webhooks_for_event(event_type, app.webhooks.all())
get_webhooks_for_event(event_type, app) ==
    {w \in WebhookIds : Webhooks[w].app = app /\ event_type \in Webhooks[w].events}

\* webhooks.first()
first(webhooks) == CHOOSE w \in webhooks : \A v \in webhooks : w <= v

SyncResult(id, outcome, raised, returned) ==
    [called |-> TRUE, delivery |-> id, code |-> outcome.code, body |-> outcome.body,
     exc |-> outcome.exc, raised |-> raised, returned |-> returned]

\* a variant of SyncResponse that leaves the response as the adapter returned it
\* when the body does not parse
SyncResponseUnparsed(outcome, has_response) ==
    IF outcome.kind = "raise"
    THEN [response |-> IF has_response
                       THEN WebhookResponse("error body", 500, FAILED)
                       ELSE WebhookResponse("", 0, FAILED),
          response_data |-> NoValue]
    ELSE LET response == send_webhook_using_http(outcome)
             parsed == json_loads(response.content)
         IN [response |-> response, response_data |-> parsed.value]

\* the response send_webhook_request_sync ends with, and the value it parsed
\* has_response: a RequestException carries the remote's response
SyncResponse(outcome, has_response) ==
    IF outcome.kind = "raise"
    THEN \* except RequestException
         [response |-> IF has_response
                       THEN WebhookResponse("error body", 500, FAILED)
                       ELSE WebhookResponse("", 0, FAILED),
          response_data |-> NoValue]
    ELSE LET response == send_webhook_using_http(outcome)
             parsed == json_loads(response.content)
         IN IF parsed.error # NoValue
            THEN \* except JSONDecodeError
                 [response |-> [response EXCEPT !.status = FAILED], response_data |-> NoValue]
            ELSE [response |-> response, response_data |-> parsed.value]

\* a variant of SyncReturn that returns whatever was parsed
SyncReturnParsed(response, response_data) == response_data

\* return response_data if response.status == EventDeliveryStatus.SUCCESS else None
SyncReturn(response, response_data) ==
    IF response.status = SUCCESS THEN response_data ELSE NoValue

\* a variant of SyncSchemes that lets every scheme the router knows through
SyncSchemesAllKnown == KnownSchemes

\* the schemes send_webhook_request_sync accepts
SyncSchemes == {HTTP, HTTPS}

\* the delivery id is the row trigger_webhook_sync has just created
send_webhook_request_sync(id, webhook, rows) ==
    IF lower(Webhooks[webhook].scheme) \notin SyncSchemes
    THEN /\ deliveries' = delivery_update(rows, id, FAILED)
         /\ attempts' = Append(attempts, <<>>)
         /\ transmissions' = Append(transmissions, 0)
         /\ sync_result' = SyncResult(id, Reply(0, ""), "ValueError", NoValue)
    ELSE \E outcome \in Outcomes("http", SyncBodies, AdapterRaises("http")),
            has_response \in BOOLEAN :
           LET r == SyncResponse(outcome, has_response)
               created == <<[task_id |-> 0, status |-> PENDING, content |-> "",
                             created_at |-> now]>>
           IN /\ outcome.kind = "reply" => ~has_response
              /\ attempts' = attempt_update(Append(attempts, created), id, 1, r.response)
              /\ deliveries' = clear_successful_delivery(
                                   delivery_update(rows, id, r.response.status), id)
              /\ transmissions' = Append(transmissions, 1)
              /\ sync_result' = SyncResult(id, outcome, NoValue,
                                           SyncReturn(r.response, r.response_data))

\* a variant of trigger_webhook_sync that stores the payload before it looks for the endpoint
trigger_webhook_sync_payload_first(event_type, data, app) ==
    LET webhooks == get_webhooks_for_event(event_type, app) IN
    IF webhooks = {}
    THEN /\ sync_result' = SyncResult(0, Reply(0, ""), "PaymentError", NoValue)
         /\ payloads' = Append(payloads, EventPayload(data))
         /\ UNCHANGED <<deliveries, attempts, log, delayed, transmissions>>
    ELSE LET webhook == first(webhooks)
             id == Len(deliveries) + 1
         IN /\ payloads' = Append(payloads, EventPayload(data))
            /\ log' = Append(log, NoLog)
            /\ delayed' = Append(delayed, 0)
            /\ send_webhook_request_sync(
                   id, webhook,
                   Append(deliveries,
                          EventDelivery(PENDING, event_type, Len(payloads) + 1, webhook)))

trigger_webhook_sync(event_type, data, app) ==
    LET webhooks == get_webhooks_for_event(event_type, app) IN
    IF webhooks = {}
    THEN /\ sync_result' = SyncResult(0, Reply(0, ""), "PaymentError", NoValue)
         /\ UNCHANGED <<payloads, deliveries, attempts, log, delayed, transmissions>>
    ELSE LET webhook == first(webhooks)
             id == Len(deliveries) + 1
         IN /\ payloads' = Append(payloads, EventPayload(data))
            /\ log' = Append(log, NoLog)
            /\ delayed' = Append(delayed, 0)
            /\ send_webhook_request_sync(
                   id, webhook,
                   Append(deliveries,
                          EventDelivery(PENDING, event_type, Len(payloads) + 1, webhook)))

SyncCall ==
    /\ sync_calls < MaxSyncCalls
    /\ sync_calls' = sync_calls + 1
    /\ \E event_type \in EventTypes, app \in Apps :
         /\ sync_request' = [event_type |-> event_type, app |-> app]
         /\ trigger_webhook_sync(event_type, <<"data", 0>>, app)
    /\ UNCHANGED <<is_active, queue, running, redeliveries, cycles, toggles, fanout_call,
                   now, http_call, router_call>>

-----------------------------------------------------------------------------
(* Direct calls of the HTTP adapter and of the router. *)

\* the target URL schemes the router is called with
Targets ==
    {Webhooks[w].scheme : w \in WebhookIds} \cup
    {HTTP, <<"H", "T", "T", "P">>, <<"s", "q", "s">>, <<>>}

CallHttp ==
    /\ ~http_call.called /\ ~router_call.called
    /\ \E code \in MinStatusCode..MaxStatusCode, body \in Bodies :
         http_call' = [called |-> TRUE, code |-> code, body |-> body,
                       response |-> send_webhook_using_http(Reply(code, body))]
    /\ UNCHANGED <<is_active, payloads, deliveries, attempts, queue, running, log,
                   delayed, transmissions, redeliveries, cycles, toggles, fanout_call, sync_calls, sync_request, now,
                   sync_result, router_call>>

Dispatch ==
    /\ ~http_call.called /\ ~router_call.called
    /\ \E target \in Targets :
         \E outcome \in
               IF lower(target) \in KnownSchemes
               THEN LET method == scheme_matrix(lower(target)).method
                    IN Outcomes(method, Bodies, AdapterRaises(method))
               ELSE {Reply(0, "")} :
           router_call' = [called |-> TRUE, target |-> target, outcome |-> outcome,
                           result |-> send_webhook_using_scheme_method(target, outcome)]
    /\ UNCHANGED <<is_active, payloads, deliveries, attempts, queue, running, log,
                   delayed, transmissions, redeliveries, cycles, toggles, fanout_call, sync_calls, sync_request, now,
                   sync_result, http_call>>

-----------------------------------------------------------------------------
NoSyncResult ==
    [called |-> FALSE, delivery |-> 0, code |-> 0, body |-> "", exc |-> NoValue,
     raised |-> NoValue, returned |-> NoValue]

NoHttpCall == [called |-> FALSE, code |-> 0, body |-> "", response |-> WebhookResponse("", 0, PENDING)]

Init ==
    /\ is_active = [w \in WebhookIds |-> TRUE]
    /\ payloads = <<>>
    /\ deliveries = <<>>
    /\ attempts = <<>>
    /\ queue = {}
    /\ running = {}
    /\ log = <<>>
    /\ delayed = <<>>
    /\ transmissions = <<>>
    /\ redeliveries = 0
    /\ cycles = 0
    /\ toggles = 0
    /\ fanout_call = [called |-> FALSE, event_type |-> "", webhooks |-> {}, rendered |-> {},
                      first |-> 1, first_payload |-> 1]
    /\ sync_calls = 0
    /\ sync_request = [event_type |-> "", app |-> ""]
    /\ now = 0
    /\ sync_result = NoSyncResult
    /\ http_call = NoHttpCall
    /\ router_call = [called |-> FALSE, target |-> <<>>, outcome |-> Reply(0, ""),
                      result |-> Raised("ValueError", FALSE)]

\* the asynchronous engine; every job is delivered once, at any time after it was
\* scheduled (the clock is not advanced)
Next ==
    \/ TriggerAsync(MaxDeliveries)
    \/ \E job \in queue : TaskDisabled(job)
    \/ \E job \in queue : TaskBegin(job)
    \/ \E r \in running : TaskComplete(r)
    \/ \E w \in WebhookIds : SetActive(w)
    \/ \E id \in 1..Len(deliveries) : Housekeeping(id)

Spec == Init /\ [][Next]_vars

\* the engine under a job queue that may deliver a job twice
NextRedelivery ==
    \/ Next
    \/ \E job \in queue : Redeliver(job)
    \/ \E job \in queue : TaskNotFound(job)

SpecRedelivery == Init /\ [][NextRedelivery]_vars

\* the workers run every submitted and every scheduled job
Fairness ==
    /\ WF_vars(\E job \in queue : TaskDisabled(job))
    /\ WF_vars(\E job \in queue : TaskBegin(job))
    /\ WF_vars(\E r \in running : TaskComplete(r))

SpecFair == Spec /\ Fairness

\* the retry chain under the wall clock: a worker takes a job only when it is due
NextTimed ==
    \/ TriggerAsync(MaxDeliveries)
    \/ \E job \in queue : Due(job) /\ TaskBegin(job)
    \/ \E r \in running : TaskComplete(r)
    \/ Tick

SpecTimed == Init /\ [][NextTimed]_vars

\* fan-out alone: events that fan out to any set of endpoints
NextFanout == TriggerAsync(MaxFanoutDeliveries)

SpecFanout == Init /\ [][NextFanout]_vars

\* the synchronous path
NextSync ==
    \/ SyncCall
    \/ \E id \in 1..Len(deliveries) : Housekeeping(id)

SpecSync == Init /\ [][NextSync]_vars

\* the adapters and the router as functions of their input
NextRouter ==
    \/ CallHttp
    \/ Dispatch

SpecRouter == Init /\ [][NextRouter]_vars

-----------------------------------------------------------------------------
(* Properties. *)

Rows == 1..Len(deliveries)

\* no job of the delivery waits in the queue and no invocation of it is running
Quiescent(id) == JobsOf(id) = {} /\ RunningOf(id) = {}

\* the delivery's target URL has a scheme the router knows
Supported(id) == lower(Webhooks[deliveries[id].webhook].scheme) \in KnownSchemes

AllAttempts(id, status) == \A a \in 1..Len(attempts[id]) : attempts[id][a].status = status

\* C1: on the async path, with jobs delivered once, a delivery on a supported
\* scheme whose webhook was active in every cycle and whose every transport call
\* returned a FAILED result is, once its job and all scheduled retries have run,
\* FAILED with exactly max_retries + 1 attempts, and no retry is scheduled.
C1_AllFailedEndsFailed ==
    \A id \in Rows :
        ( /\ delayed[id] = 1
          /\ Quiescent(id)
          /\ Supported(id)
          /\ transmissions[id] >= 1
          /\ log[id].disabled = 0
          /\ log[id].sent = 0
          /\ log[id].unhandled = 0 )
        => /\ deliveries[id].status = FAILED
           /\ Len(attempts[id]) = max_retries + 1
           /\ AllAttempts(id, FAILED)
           /\ transmissions[id] = max_retries + 1
           /\ log[id].failed_request = max_retries + 1
           /\ log[id].exceeded = 1

C1_Witness ==
    \E id \in Rows :
        /\ Quiescent(id)
        /\ deliveries[id].status = FAILED
        /\ Len(attempts[id]) = max_retries + 1
        /\ AllAttempts(id, FAILED)
        /\ log[id].exceeded = 1

\* C2: on the async path, with jobs delivered once, a delivery whose transport
\* results were FAILED for cycles 1..k-1 and SUCCESS for cycle k is SUCCESS (while
\* its row exists) with exactly k attempts, k <= max_retries + 1; after the
\* successful cycle no retry is scheduled and nothing more is transmitted for it.
C2_SuccessOnAttemptK ==
    \A id \in Rows :
        log[id].sent >= 1
        => LET k == log[id].failed_request + 1 IN
           /\ log[id].sent = 1
           /\ deliveries[id].status = SUCCESS
           /\ k <= max_retries + 1
           /\ Len(attempts[id]) = k
           /\ transmissions[id] = k
           /\ attempts[id][k].status = SUCCESS
           /\ \A a \in 1..(k - 1) : attempts[id][a].status = FAILED
           /\ Quiescent(id)

C2_Witness ==
    \E id \in Rows :
        /\ log[id].sent = 1
        /\ log[id].failed_request = max_retries
        /\ deliveries[id].status = SUCCESS
        /\ Len(attempts[id]) = max_retries + 1

\* a cycle of the delivery has just taken the branch for a disabled webhook
DisabledStep(id) == log'[id].disabled = log[id].disabled + 1

\* C3: a cycle that finds the webhook inactive marks the delivery FAILED, creates
\* no attempt, invokes no adapter and schedules no retry; with jobs delivered
\* once the delivery then stays FAILED with only the attempts of its earlier
\* failed cycles (none if the webhook was inactive from the first cycle on).
C3_DisabledNoAttempt ==
    /\ [][\A id \in Rows :
            DisabledStep(id)
            => /\ deliveries'[id].status = FAILED
               /\ attempts' = attempts
               /\ transmissions' = transmissions
               /\ running' = running
               /\ queue' \subseteq queue
               /\ JobsOf(id) # {}]_vars
    /\ [](\A id \in Rows :
            log[id].disabled >= 1
            => /\ deliveries[id].status = FAILED
               /\ Quiescent(id)
               /\ Len(attempts[id]) = log[id].failed_request
               /\ transmissions[id] = log[id].failed_request
               /\ log[id].disabled = 1)

C3_Witness ==
    \E id \in Rows :
        /\ log[id].disabled = 1
        /\ deliveries[id].status = FAILED
        /\ Len(attempts[id]) = 0
        /\ transmissions[id] = 0
        /\ Quiescent(id)

\* C4: once a delivery is SUCCESS or FAILED, no step changes its status, also
\* when the job queue delivers a job twice.
C4_TerminalStatusKept ==
    [][\A id \in Rows :
         deliveries[id].status \in {SUCCESS, FAILED}
         => deliveries'[id].status = deliveries[id].status]_vars

\* the rows the last trigger_webhooks_async call created
NewRows == fanout_call.first..Len(deliveries)

IsRaw(payload_id) == payloads[payload_id].payload[1] = "data"

\* C5: a fan-out on a subscribable event whose subscription queries all render
\* creates exactly R + S deliveries: one per raw endpoint, all on one shared raw
\* payload, and one per subscription endpoint, each on its own rendered payload.
C5_FanoutCounts ==
    LET g == group_webhooks_by_subscription(fanout_call.webhooks) IN
    ( /\ fanout_call.called
      /\ fanout_call.event_type \in SUBSCRIBABLE_EVENTS
      /\ fanout_call.rendered = g.subscription )
    => /\ Cardinality(NewRows) = Cardinality(g.regular) + Cardinality(g.subscription)
       /\ \A w \in g.regular :
            Cardinality({id \in NewRows : deliveries[id].webhook = w}) = 1
       /\ \A id, other \in NewRows :
            (~Webhooks[deliveries[id].webhook].subscription_query
             /\ ~Webhooks[deliveries[other].webhook].subscription_query)
            => (deliveries[id].payload = deliveries[other].payload
                /\ IsRaw(deliveries[id].payload))
       /\ \A w \in g.subscription :
            /\ Cardinality({id \in NewRows : deliveries[id].webhook = w}) = 1
            /\ \A id \in NewRows :
                 deliveries[id].webhook = w
                 => /\ payloads[deliveries[id].payload].payload = <<"subscription", w>>
                    /\ \A other \in NewRows :
                         deliveries[other].payload = deliveries[id].payload => other = id

\* C6 as claimed: a reply with a 2xx status and a JSON body returns the parsed
\* body and leaves the delivery SUCCESS; a reply with any other status leaves it
\* FAILED and returns None; a value is returned only if the delivery is SUCCESS.
SyncReplied == sync_result.called /\ sync_result.raised = NoValue /\ sync_result.exc = NoValue

Is2xx(code) == 200 <= code /\ code <= 299

C6_SyncReturnOriginal ==
    /\ SyncReplied
       => LET status == deliveries[sync_result.delivery].status IN
          /\ (Is2xx(sync_result.code) /\ json_loads(sync_result.body).error = NoValue)
             => (sync_result.returned = json_loads(sync_result.body).value
                 /\ status = SUCCESS)
          /\ ~Is2xx(sync_result.code)
             => (status = FAILED /\ sync_result.returned = NoValue)
    /\ (sync_result.called /\ sync_result.returned # NoValue)
       => deliveries[sync_result.delivery].status = SUCCESS

\* C6: a reply with a 2xx status and a JSON body returns the parsed body and
\* leaves the delivery SUCCESS; a reply with a 4xx or 5xx status leaves it FAILED
\* and returns None, whether or not the body is JSON; a value is returned only
\* if the delivery is SUCCESS.
C6_SyncReturn ==
    /\ SyncReplied
       => LET status == deliveries[sync_result.delivery].status IN
          /\ (Is2xx(sync_result.code) /\ json_loads(sync_result.body).error = NoValue)
             => (sync_result.returned = json_loads(sync_result.body).value
                 /\ status = SUCCESS)
          /\ (400 <= sync_result.code /\ sync_result.code <= 599)
             => (status = FAILED /\ sync_result.returned = NoValue)
    /\ (sync_result.called /\ sync_result.returned # NoValue)
       => deliveries[sync_result.delivery].status = SUCCESS

C6_Witness ==
    /\ SyncReplied
    /\ sync_result.code = 500
    /\ sync_result.body = JsonBody
    /\ sync_result.returned = NoValue
    /\ deliveries[sync_result.delivery].status = FAILED

\* C7: for a delivery whose target scheme the router does not know, no adapter is
\* invoked, no attempt is ever SUCCESS, the cycle records FAILED with the error
\* text on the attempt it created, marks the delivery FAILED and schedules no retry.
C7_UnknownSchemeFatal ==
    \A id \in Rows :
        ~Supported(id)
        => /\ transmissions[id] = 0
           /\ log[id].sent = 0
           /\ deliveries[id].status # SUCCESS
           /\ \A job \in JobsOf(id) : job.retries = 0
           /\ \A a \in 1..Len(attempts[id]) :
                IF \E r \in RunningOf(id) : r.attempt = a
                THEN attempts[id][a].status = PENDING
                ELSE /\ attempts[id][a].status = FAILED
                     /\ attempts[id][a].content = UnknownSchemeText
                     /\ deliveries[id].status = FAILED
                     /\ Quiescent(id)

C7_Witness ==
    \E id \in Rows :
        /\ ~Supported(id)
        /\ Len(attempts[id]) = 1
        /\ attempts[id][1].status = FAILED
        /\ attempts[id][1].content = UnknownSchemeText
        /\ deliveries[id].status = FAILED
        /\ Quiescent(id)

\* C8 as claimed: send_webhook_using_http returns SUCCESS exactly for the status
\* codes 200..299, and FAILED with the body as content for every other code.
C8_HttpStatusOriginal ==
    http_call.called
    => /\ (http_call.response.status = SUCCESS) <=> Is2xx(http_call.code)
       /\ ~Is2xx(http_call.code)
          => (http_call.response.status = FAILED
              /\ http_call.response.content = http_call.body)

\* C8: send_webhook_using_http returns FAILED, with the body as content, exactly
\* for the status codes 400..599, and SUCCESS for every other code (1xx, 2xx, 3xx).
C8_HttpStatus ==
    http_call.called
    => LET error == 400 <= http_call.code /\ http_call.code <= 599 IN
       /\ (http_call.response.status = FAILED) <=> error
       /\ (http_call.response.status = SUCCESS) <=> ~error
       /\ http_call.response.content = http_call.body
       /\ http_call.response.response_status_code = http_call.code

C8_Witness ==
    /\ http_call.called
    /\ http_call.code = 302
    /\ http_call.response.status = SUCCESS

\* C9: for every known scheme and every failure its transport library raises, the
\* router returns a FAILED result with the error description as content; nothing
\* is raised to send_webhook_request_async.
C9_FailuresNormalised ==
    (router_call.called
     /\ lower(router_call.target) \in KnownSchemes
     /\ router_call.outcome.kind = "raise")
    => /\ router_call.result.raised = NoValue
       /\ router_call.result.response.status = FAILED
       /\ router_call.result.response.content = router_call.outcome.exc

\* C10: every delivery trigger_webhooks_async persists is submitted to the job
\* queue exactly once, and every submitted job is for a persisted delivery.
C10_SubmittedOnce ==
    /\ \A id \in Rows :
         /\ delayed[id] = 1
         /\ Cardinality(JobsOf(id)) = 1
         /\ deliveries[id].status = PENDING
    /\ \A job \in queue : job.delivery_id \in Rows /\ job.retries = 0

C10_Witness ==
    /\ fanout_call.called
    /\ fanout_call.webhooks = {1, 3, 4}
    /\ fanout_call.rendered = {3}
    /\ fanout_call.event_type \in SUBSCRIBABLE_EVENTS
    /\ Cardinality(NewRows) = 4
    /\ \A id \in NewRows : Cardinality(JobsOf(id)) = 1

\* a trigger_webhook_sync call has just been made
SyncStep == sync_calls' = sync_calls + 1

\* C11: a trigger_webhook_sync call that finds no endpoint of the application for
\* the event type raises to the caller; it creates no payload, no delivery and no
\* attempt, transmits nothing and submits no job.
C11_NoEndpointRaises ==
    [][(SyncStep
        /\ get_webhooks_for_event(sync_request'.event_type, sync_request'.app) = {})
       => /\ sync_result'.raised = "PaymentError"
          /\ sync_result'.returned = NoValue
          /\ payloads' = payloads
          /\ deliveries' = deliveries
          /\ attempts' = attempts
          /\ transmissions' = transmissions
          /\ queue' = queue]_vars

C11_Witness ==
    /\ sync_calls = MaxSyncCalls
    /\ sync_request.app = "app4"
    /\ sync_result.raised = "PaymentError"
    /\ Len(payloads) = 1
    /\ Len(deliveries) = 1

\* C12: every delivery of a sync dispatch that resolved an endpoint has exactly one
\* attempt and at most one transmission, and no job is ever submitted for it.
C12_SyncSingleShot ==
    /\ \A id \in Rows :
         /\ Len(attempts[id]) = 1
         /\ transmissions[id] <= 1
         /\ delayed[id] = 0
    /\ queue = {}

\* C13: a sync dispatch answered with a 2xx status and a body that is not JSON
\* raises nothing and returns None, with the attempt and the delivery both FAILED.
C13_MalformedBodyFails ==
    (sync_result.called
     /\ sync_result.exc = NoValue
     /\ Is2xx(sync_result.code)
     /\ json_loads(sync_result.body).error # NoValue)
    => /\ sync_result.raised = NoValue
       /\ sync_result.returned = NoValue
       /\ deliveries[sync_result.delivery].status = FAILED
       /\ Len(attempts[sync_result.delivery]) = 1
       /\ attempts[sync_result.delivery][1].status = FAILED

C13_Witness ==
    /\ sync_result.called
    /\ sync_result.code = 200
    /\ sync_result.body = "not json"
    /\ sync_result.raised = NoValue
    /\ sync_result.returned = NoValue
    /\ deliveries[sync_result.delivery].status = FAILED
    /\ attempts[sync_result.delivery][1].status = FAILED

\* the sync dispatch resolved an endpoint whose URL scheme is neither http nor https
SyncToOtherScheme ==
    /\ sync_result.called
    /\ sync_result.delivery # 0
    /\ lower(Webhooks[deliveries[sync_result.delivery].webhook].scheme) \notin {HTTP, HTTPS}

\* C14: a sync dispatch to an endpoint whose URL scheme is neither http nor https
\* raises to the caller, invokes no adapter and leaves the delivery FAILED.
C14_SyncOtherSchemeFailsFast ==
    /\ SyncToOtherScheme
       => /\ sync_result.raised = "ValueError"
          /\ sync_result.returned = NoValue
    /\ \A id \in Rows :
         lower(Webhooks[deliveries[id].webhook].scheme) \notin {HTTP, HTTPS}
         => /\ transmissions[id] = 0
            /\ deliveries[id].status = FAILED

C14_Witness ==
    /\ SyncToOtherScheme
    /\ deliveries[sync_result.delivery].webhook = 2
    /\ sync_result.raised = "ValueError"
    /\ transmissions[sync_result.delivery] = 0
    /\ deliveries[sync_result.delivery].status = FAILED

\* C15: a fan-out on an event type that is not subscribable creates no delivery on
\* a rendered payload, and every delivery it creates and submits is a raw-payload
\* delivery to an endpoint without a subscription query, one per such endpoint.
C15_NotSubscribableRawOnly ==
    (fanout_call.called /\ fanout_call.event_type \notin SUBSCRIBABLE_EVENTS)
    => LET g == group_webhooks_by_subscription(fanout_call.webhooks) IN
       /\ Len(payloads) - fanout_call.first_payload + 1 = (IF g.regular = {} THEN 0 ELSE 1)
       /\ \A id \in NewRows :
            /\ IsRaw(deliveries[id].payload)
            /\ deliveries[id].webhook \in g.regular
            /\ delayed[id] = 1
       /\ Cardinality(NewRows) = Cardinality(g.regular)

\* the payloads the last trigger_webhooks_async call created
NewPayloads == fanout_call.first_payload..Len(payloads)

\* the rows of the last call that create_deliveries_for_subscriptions returned
RenderedRows == {id \in NewRows : ~IsRaw(deliveries[id].payload)}

\* C19: on a subscribable event, create_deliveries_for_subscriptions returns one
\* PENDING delivery, on a payload of its own, for each subscription endpoint whose
\* query rendered a payload, and neither a payload nor a delivery for an endpoint
\* whose query rendered nothing.
C19_EmptyRenderSkipped ==
    (fanout_call.called /\ fanout_call.event_type \in SUBSCRIBABLE_EVENTS)
    => LET g == group_webhooks_by_subscription(fanout_call.webhooks) IN
       /\ Cardinality(RenderedRows) = Cardinality(fanout_call.rendered)
       /\ \A w \in fanout_call.rendered :
            /\ Cardinality({id \in RenderedRows : deliveries[id].webhook = w}) = 1
            /\ Cardinality({p \in NewPayloads :
                               payloads[p].payload = <<"subscription", w>>}) = 1
       /\ \A id \in RenderedRows :
            /\ deliveries[id].status = PENDING
            /\ deliveries[id].payload \in NewPayloads
            /\ payloads[deliveries[id].payload].payload
                   = <<"subscription", deliveries[id].webhook>>
            /\ \A other \in NewRows :
                 deliveries[other].payload = deliveries[id].payload => other = id
       /\ \A w \in g.subscription \ fanout_call.rendered :
            /\ \A id \in RenderedRows : deliveries[id].webhook # w
            /\ \A p \in NewPayloads : payloads[p].payload # <<"subscription", w>>

C19_Witness ==
    /\ fanout_call.called
    /\ fanout_call.event_type \in SUBSCRIBABLE_EVENTS
    /\ fanout_call.webhooks = {3, 4}
    /\ fanout_call.rendered = {4}
    /\ Cardinality(NewRows) = 1
    /\ \A id \in NewRows : deliveries[id].webhook = 4 /\ deliveries[id].status = PENDING

\* C16: a cycle whose transport result is FAILED, run by a job that has made fewer
\* than max_retries retries, schedules exactly one retry of the same delivery and
\* leaves the delivery PENDING; the cycle of the job that has made max_retries
\* retries schedules nothing and marks the delivery FAILED.
C16_RetryKeepsPending ==
    [][\A r \in running :
         LET id == r.job.delivery_id IN
         (r \notin running' /\ log'[id].failed_request = log[id].failed_request + 1)
         => IF r.job.retries < max_retries
            THEN /\ queue \subseteq queue'
                 /\ Cardinality(queue' \ queue) = 1
                 /\ \A job \in queue' \ queue :
                      job.delivery_id = id /\ job.retries = r.job.retries + 1
                 /\ deliveries[id].status = PENDING
                 /\ deliveries'[id].status = PENDING
                 /\ log'[id].exceeded = log[id].exceeded
            ELSE /\ queue' = queue
                 /\ deliveries'[id].status = FAILED
                 /\ log'[id].exceeded = log[id].exceeded + 1]_vars

C16_Witness ==
    \E id \in Rows :
        /\ log[id].failed_request = 2
        /\ Len(attempts[id]) = 2
        /\ AllAttempts(id, FAILED)
        /\ deliveries[id].status = PENDING
        /\ \E job \in JobsOf(id) : job.retries = 2

\* C17: the retry scheduled after the failed cycle of a job that has made n
\* retries asks for a delay of 10, 20, 40, 80, 160 seconds for n = 0..4, each
\* longer than the one before, and the attempt of a retry is never created
\* earlier than that delay after the attempt before it.
C17_BackoffDelays ==
    LET delays == <<10, 20, 40, 80, 160>> IN
    /\ \A job \in queue \cup {r.job : r \in running} :
         /\ job.retries <= max_retries
         /\ job.retries = 0 => job.countdown = 0
         /\ job.retries >= 1 => job.countdown = delays[job.retries]
         /\ job.retries >= 2 => job.countdown > delays[job.retries - 1]
    /\ \A id \in Rows :
         \A a \in 2..Len(attempts[id]) :
             attempts[id][a].created_at >= attempts[id][a - 1].created_at + delays[a - 1]

C17_Witness ==
    \E id \in Rows :
        /\ Len(attempts[id]) = max_retries + 1
        /\ attempts[id][max_retries + 1].created_at
               = attempts[id][max_retries].created_at + 160
        /\ now = 310

\* the delivery was submitted to send_webhook_request_async
AsyncSubmitted(id) == id <= Len(deliveries) /\ delayed[id] = 1

\* the delivery has a terminal status, or its row is gone
Settled(id) ==
    /\ id <= Len(deliveries)
    /\ (~deliveries[id].exists \/ deliveries[id].status \in {SUCCESS, FAILED})

\* C18: with the workers running every due job, every delivery submitted to
\* send_webhook_request_async eventually is SUCCESS or FAILED unless its row is
\* removed, and once its retry budget is exhausted no job is scheduled for it.
C18_EventuallyTerminal ==
    /\ \A id \in 1..MaxDeliveries : [](AsyncSubmitted(id) => <>Settled(id))
    /\ [][\A id \in Rows :
            log[id].exceeded >= 1
            => {job \in queue' : job.delivery_id = id}
                   \subseteq {job \in queue : job.delivery_id = id}]_vars

\* C20: a retry that finds the webhook deactivated after one or more failed cycles
\* creates no attempt, transmits nothing, marks the delivery FAILED and schedules
\* nothing; the delivery then stays FAILED with the attempts of its failed cycles
\* unchanged, fewer than max_retries + 1 of them.
C20_DeactivatedRetryEndsChain ==
    /\ [][\A id \in Rows :
            (DisabledStep(id) /\ log[id].failed_request >= 1)
            => /\ attempts' = attempts
               /\ transmissions' = transmissions
               /\ deliveries'[id].status = FAILED
               /\ {job \in queue' : job.delivery_id = id} = {}
               /\ running' = running]_vars
    /\ [](\A id \in Rows :
            (log[id].disabled >= 1 /\ log[id].failed_request >= 1)
            => /\ deliveries[id].status = FAILED
               /\ Quiescent(id)
               /\ Len(attempts[id]) = log[id].failed_request
               /\ Len(attempts[id]) < max_retries + 1
               /\ AllAttempts(id, FAILED)
               /\ transmissions[id] = Len(attempts[id]))

C20_Witness ==
    \E id \in Rows :
        /\ log[id].disabled = 1
        /\ log[id].failed_request = max_retries
        /\ Len(attempts[id]) = max_retries
        /\ AllAttempts(id, FAILED)
        /\ deliveries[id].status = FAILED
        /\ Quiescent(id)

====
